---- MODULE Spec2Model ----
(***************************************************************************)
(* State-machine model of MCPClaudeClient (src/client.py): the session     *)
(* lifecycle (__aenter__ / __aexit__), the tool catalog adapter, the tool  *)
(* dispatcher and the two-phase chat_with_tools orchestration.             *)
(*                                                                         *)
(* Python values are encoded with uniform shapes:                          *)
(*   None            -> None            ([none |-> TRUE])                  *)
(*   a str s         -> Str(s)          where a value may also be None     *)
(*   message content -> [text |-> s] for a plain str,                      *)
(*                      [blocks |-> q] for a list of blocks / results      *)
(* One action is the code that runs between two suspension points (await). *)
(***************************************************************************)
EXTENDS Naturals, Sequences, FiniteSets, TLC

\* ------------------------------------------------------------------ bounds
MaxHist    == 2   \* messages in the history passed to chat_with_tools
MaxBlocks  == 2   \* content blocks in one model response
MaxTools   == 2   \* descriptors in the catalog returned by list_tools
MaxContent == 2   \* content elements in one call_tool result

\* ------------------------------------------------------------ python values
None   == [none |-> TRUE]
Str(s) == [some |-> s]

\* Coroutines that may run chat_with_tools inside the scoped body.
Tasks == {1, 2}

\* ------------------------------------------------------------------ inputs
RECURSIVE SeqsUpTo(_, _)
SeqsUpTo(S, n) ==
    IF n = 0 THEN {<<>>}
    ELSE LET shorter == SeqsUpTo(S, n - 1)
         IN  shorter \cup {Append(q, x) : q \in {r \in shorter : Len(r) = n - 1}, x \in S}

\* History messages as the callers build them (main, simple_claude_mcp_chat).
Messages ==
    { [role |-> "system",    content |-> [text |-> "S1"]],
      [role |-> "system",    content |-> [text |-> "S2"]],
      [role |-> "user",      content |-> [text |-> "hi"]],
      [role |-> "assistant", content |-> [text |-> "yo"]] }

Histories == SeqsUpTo(Messages, MaxHist)

\* Content blocks of a model response.
TextBlock(t)       == [type |-> "text", text |-> t]
ToolUseBlock(n, i) == [type |-> "tool_use", name |-> n, input |-> "args", id |-> i]

Blocks ==
    { TextBlock("a"), TextBlock("b"),
      ToolUseBlock("get_weather", "t1"), ToolUseBlock("get_time", "t2") }

ToolUseIdxs(content) == {i \in 1..Len(content) : content[i].type = "tool_use"}

\* The model API gives every tool-use block of one turn its own id.
Contents ==
    { q \in SeqsUpTo(Blocks, MaxBlocks) :
        \A i, j \in ToolUseIdxs(q) : q[i].id = q[j].id => i = j }

StopReasons == {"end_turn", "tool_use", "max_tokens"}

Responses == [stop_reason : StopReasons, content : Contents]

\* Tool descriptors returned by list_tools.
Descriptors ==
    { [name |-> "get_weather", description |-> Str("Get the weather"),
       inputSchema |-> Str("{city: string}")],
      [name |-> "get_time", description |-> None, inputSchema |-> None],
      [name |-> "ping", description |-> Str(""), inputSchema |-> Str("{}")] }

Catalogs == SeqsUpTo(Descriptors, MaxTools)

\* Outcomes of the remote call_tool: it raises, or returns a result whose
\* content elements carry a text attribute or not (e.g. an image element).
TextItem(t) == [type |-> "text", text |-> t]
ImageItem   == [type |-> "image", data |-> "png"]

ContentItems == {TextItem("sunny"), TextItem(""), ImageItem}

ToolExceptions ==
    { [kind |-> "transport",   message |-> ""],
      [kind |-> "remote_tool", message |-> "boom"],
      [kind |-> "unknown_tool", message |-> "Unknown tool"] }

ToolOutcomes ==
    {[raised |-> TRUE, exc |-> e] : e \in ToolExceptions}
    \cup {[raised |-> FALSE, content |-> q] : q \in SeqsUpTo(ContentItems, MaxContent)}

\* ---------------------------------------------------------- pure functions
\* Python truthiness of an optional str or dict: None, "" and {} are falsy.
Truthy(v) == v # None /\ v.some \notin {"", "{}"}

\* The fallback schema of lines 67-70: {"type": "object", "properties": {}}.
FallbackSchema == "{type: object, properties: {}}"

\* One iteration of the loop of _convert_mcp_tools_to_claude_format.
claude_tool(tool) ==
    [ name         |-> tool.name,
      description  |-> IF Truthy(tool.description) THEN tool.description.some ELSE "",
      input_schema |-> IF Truthy(tool.inputSchema) THEN tool.inputSchema.some
                       ELSE FallbackSchema ]

RECURSIVE ConvertFrom(_, _, _)
ConvertFrom(tools, i, claude_tools) ==
    IF i > Len(tools) THEN claude_tools
    ELSE ConvertFrom(tools, i + 1, Append(claude_tools, claude_tool(tools[i])))

\* The conversion building its list from the front (insert(0, ...) for
\* append).
convert_mcp_tools_to_claude_format_Reversed(tools) ==
    [i \in 1..Len(tools) |-> ConvertFrom(tools, 1, <<>>)[Len(tools) + 1 - i]]

convert_mcp_tools_to_claude_format(tools) == ConvertFrom(tools, 1, <<>>)

\* The loop of lines 109-116, started with system_message = None and
\* conversation_messages = []: returns both locals after the loop.
\* SeparateFrom keeping the first system message it meets.
RECURSIVE SeparateFrom_FirstWins(_, _, _, _)
SeparateFrom_FirstWins(msgs, i, sys, conv) ==
    IF i > Len(msgs) THEN [system_message |-> sys, conversation_messages |-> conv]
    ELSE IF msgs[i].role = "system"
         THEN SeparateFrom_FirstWins(msgs, i + 1,
                  IF sys = None THEN Str(msgs[i].content.text) ELSE sys, conv)
         ELSE SeparateFrom_FirstWins(msgs, i + 1, sys, Append(conv, msgs[i]))

RECURSIVE SeparateFrom(_, _, _, _)
SeparateFrom(msgs, i, sys, conv) ==
    IF i > Len(msgs) THEN [system_message |-> sys, conversation_messages |-> conv]
    ELSE IF msgs[i].role = "system"
         THEN SeparateFrom(msgs, i + 1, Str(msgs[i].content.text), conv)
         ELSE SeparateFrom(msgs, i + 1, sys, Append(conv, msgs[i]))

\* SeparateSystem leaving the system messages inline as well.
SeparateSystem_KeepsInline(msgs) ==
    [system_message |-> SeparateFrom(msgs, 1, None, <<>>).system_message,
     conversation_messages |-> msgs]

SeparateSystem(msgs) == SeparateFrom(msgs, 1, None, <<>>)

\* The loops of lines 169-172 and 178-181.
RECURSIVE ExtractFrom(_, _, _)
ExtractFrom(content, i, text_content) ==
    IF i > Len(content) THEN text_content
    ELSE ExtractFrom(content, i + 1,
                     IF content[i].type = "text" THEN text_content \o content[i].text
                     ELSE text_content)

\* ExtractText assigning instead of accumulating (= for +=).
ExtractText_LastOnly(content) ==
    LET texts == {i \in 1..Len(content) : content[i].type = "text"}
    IN  IF texts = {} THEN ""
        ELSE content[CHOOSE i \in texts : \A k \in texts : k <= i].text

ExtractText(content) == ExtractFrom(content, 1, "")

\* An except clause that names the tool errors but not the transport's.
Caught_NotTransport(exc) == exc.kind \in {"remote_tool", "unknown_tool", "AttributeError"}

\* Exception classes caught by "except Exception" (line 89).
Caught(exc) == exc.kind \in {"transport", "remote_tool", "unknown_tool", "AttributeError"}

\* The error string without the tool name.
ErrorString_NoName(tool_name, exc) == "Error executing tool: " \o exc.message

ErrorString(tool_name, exc) ==
    "Error executing tool " \o tool_name \o ": " \o exc.message

NoContentString(tool_name) ==
    "Tool " \o tool_name \o " executed successfully but returned no content."

\* The try body reading the last content element instead of the first.
TryBody_LastElement(tool_name, outcome) ==
    IF outcome.raised THEN [raised |-> TRUE, exc |-> outcome.exc]
    ELSE IF Len(outcome.content) > 0
         THEN IF "text" \in DOMAIN outcome.content[Len(outcome.content)]
              THEN [raised |-> FALSE, value |-> outcome.content[Len(outcome.content)].text]
              ELSE [raised |-> TRUE,
                    exc |-> [kind |-> "AttributeError",
                             message |-> "'ImageContent' object has no attribute 'text'"]]
         ELSE [raised |-> FALSE, value |-> NoContentString(tool_name)]

\* The try body of _execute_mcp_tool (lines 81-87) for one outcome of the
\* remote call: the value it returns, or the exception it raises.
TryBody(tool_name, outcome) ==
    IF outcome.raised THEN [raised |-> TRUE, exc |-> outcome.exc]
    ELSE IF Len(outcome.content) > 0
         THEN IF "text" \in DOMAIN outcome.content[1]
              THEN [raised |-> FALSE, value |-> outcome.content[1].text]
              ELSE [raised |-> TRUE,
                    exc |-> [kind |-> "AttributeError",
                             message |-> "'ImageContent' object has no attribute 'text'"]]
         ELSE [raised |-> FALSE, value |-> NoContentString(tool_name)]

\* _execute_mcp_tool without its exception handler.
execute_mcp_tool_NoHandler(tool_name, outcome) == TryBody(tool_name, outcome)

\* _execute_mcp_tool: what the coroutine does once the remote call has
\* completed with `outcome`: a returned str, or an exception that escapes.
execute_mcp_tool(tool_name, outcome) ==
    LET r == TryBody(tool_name, outcome)
    IN  IF r.raised /\ Caught(r.exc)
        THEN [raised |-> FALSE, value |-> ErrorString(tool_name, r.exc)]
        ELSE r

\* A scan that resumes one block too far.
NextToolUse_SkipsBlock(content, i) ==
    LET later == {j \in ToolUseIdxs(content) : j > i}
    IN  IF later = {} THEN 0 ELSE CHOOSE j \in later : \A k \in later : j <= k

\* A scan that takes the last tool-use block first.
NextToolUse_LastFirst(content, i) ==
    LET later == {j \in ToolUseIdxs(content) : j >= i}
    IN  IF later = {} THEN 0 ELSE CHOOSE j \in later : \A k \in later : k <= j

\* First tool-use block at or after position i (0 when there is none):
\* the blocks the for loop of line 137 skips are the non-tool-use ones.
NextToolUse(content, i) ==
    LET later == {j \in ToolUseIdxs(content) : j >= i}
    IN  IF later = {} THEN 0 ELSE CHOOSE j \in later : \A k \in later : j <= k

\* ------------------------------------------------------------------- state
VARIABLES
    \* the MCPClaudeClient object and the resources it manages
    life,                 \* position of the caller in "async with ... as client"
    has_sse_connection,   \* hasattr(self, 'sse_connection')
    mcp_session,          \* self.mcp_session: None or the ClientSession object
    available_tools,      \* self.available_tools
    conn,                 \* the SSE connection: "none", "held" or "released"
    sess,                 \* the ClientSession:  "none", "held" or "released"
    events,               \* acquisitions and releases, in the order they happened
    surfaced,             \* failure that reached the caller of the scope, or None
    tasks,                \* coroutines allowed to call chat_with_tools
    \* one chat_with_tools frame per task
    pc, messages, claude_tools, system_message, conversation_messages,
    response, idx, tool_results,
    result,               \* what the call handed to its caller
    \* observations of the call's traffic
    inflight,             \* the awaited request or remote tool call
    requests,             \* completion requests sent by the running call
    dispatched,           \* positions of the blocks passed to _execute_mcp_tool
    failures,             \* per dispatch: the exception raised in the try block, or None
    received,             \* the model response the call consumed last
    nRequests, nDispatched  \* requests sent and dispatches made by the call

lifeVars  == <<life, has_sse_connection, mcp_session, available_tools, conn, sess,
               events, surfaced, tasks>>
frameVars == <<pc, messages, claude_tools, system_message, conversation_messages,
               response, idx, tool_results, result>>
obsVars   == <<inflight, requests, dispatched, failures, received,
               nRequests, nDispatched>>
vars      == <<lifeVars, frameVars, obsVars>>

NoResponse == [stop_reason |-> "none", content |-> <<>>]
NoResult   == [status |-> "none"]
Idle       == [kind |-> "none"]

Returned(text) == [status |-> "returned", value |-> text]
Raised(kind)   == [status |-> "raised", kind |-> kind]

\* __init__ (lines 19-23); no chat_with_tools frame exists.
InitWith(ts) ==
    /\ life = "constructed"
    /\ has_sse_connection = FALSE
    /\ mcp_session = None
    /\ available_tools = <<>>
    /\ conn = "none"
    /\ sess = "none"
    /\ events = <<>>
    /\ surfaced = None
    /\ tasks = ts
    /\ pc = [c \in Tasks |-> "idle"]
    /\ messages = [c \in Tasks |-> <<>>]
    /\ claude_tools = [c \in Tasks |-> <<>>]
    /\ system_message = [c \in Tasks |-> None]
    /\ conversation_messages = [c \in Tasks |-> <<>>]
    /\ response = [c \in Tasks |-> NoResponse]
    /\ idx = [c \in Tasks |-> 0]
    /\ tool_results = [c \in Tasks |-> <<>>]
    /\ result = [c \in Tasks |-> NoResult]
    /\ inflight = [c \in Tasks |-> Idle]
    /\ requests = [c \in Tasks |-> <<>>]
    /\ dispatched = [c \in Tasks |-> <<>>]
    /\ failures = [c \in Tasks |-> <<>>]
    /\ received = [c \in Tasks |-> NoResponse]
    /\ nRequests = [c \in Tasks |-> 0]
    /\ nDispatched = [c \in Tasks |-> 0]

\* The callers of the repository (main, simple_claude_mcp_chat) await one
\* chat_with_tools call at a time.
Sequential == {1}

Init == InitWith(Sequential)

\* ------------------------------------------------------- session lifecycle
\* __aenter__ up to its first await: line 28 and the call of line 29.
EnterStart ==
    /\ life = "constructed"
    /\ has_sse_connection' = TRUE
    /\ life' = "connecting"
    /\ UNCHANGED <<mcp_session, available_tools, conn, sess, events, surfaced, tasks,
                   frameVars, obsVars>>

\* await self.sse_connection.__aenter__() returns (line 29); lines 32-33
\* create the ClientSession and start entering it.
Connected ==
    /\ life = "connecting"
    /\ conn' = "held"
    /\ events' = Append(events, "acquire_connection")
    /\ mcp_session' = [obj |-> "ClientSession"]
    /\ life' = "entering_session"
    /\ UNCHANGED <<has_sse_connection, available_tools, sess, surfaced, tasks,
                   frameVars, obsVars>>

\* await self.sse_connection.__aenter__() raises: __aenter__ has no handler.
ConnectFails ==
    /\ life = "connecting"
    /\ life' = "start_failed"
    /\ surfaced' = Str("connection failure")
    /\ UNCHANGED <<has_sse_connection, mcp_session, available_tools, conn, sess,
                   events, tasks, frameVars, obsVars>>

\* await self.mcp_session.__aenter__() returns (line 33); line 34 starts.
SessionEntered ==
    /\ life = "entering_session"
    /\ sess' = "held"
    /\ events' = Append(events, "acquire_session")
    /\ life' = "initializing"
    /\ UNCHANGED <<has_sse_connection, mcp_session, available_tools, conn, surfaced,
                   tasks, frameVars, obsVars>>

\* await self.mcp_session.__aenter__() raises (line 33).
SessionEnterFails ==
    /\ life = "entering_session"
    /\ life' = "start_failed"
    /\ surfaced' = Str("handshake failure")
    /\ UNCHANGED <<has_sse_connection, mcp_session, available_tools, conn, sess,
                   events, tasks, frameVars, obsVars>>

\* await self.mcp_session.initialize() returns (line 34); line 37 starts.
Initialized ==
    /\ life = "initializing"
    /\ life' = "listing_tools"
    /\ UNCHANGED <<has_sse_connection, mcp_session, available_tools, conn, sess,
                   events, surfaced, tasks, frameVars, obsVars>>

\* await self.mcp_session.initialize() raises (line 34).
InitializeFails ==
    /\ life = "initializing"
    /\ life' = "start_failed"
    /\ surfaced' = Str("handshake failure")
    /\ UNCHANGED <<has_sse_connection, mcp_session, available_tools, conn, sess,
                   events, tasks, frameVars, obsVars>>

\* await self.mcp_session.list_tools() returns (lines 37-40): the catalog
\* is cached and the scoped body starts.
ToolsListed(catalog) ==
    /\ life = "listing_tools"
    /\ available_tools' = catalog
    /\ life' = "body"
    /\ UNCHANGED <<has_sse_connection, mcp_session, conn, sess, events, surfaced,
                   tasks, frameVars, obsVars>>

\* await self.mcp_session.list_tools() raises (line 37).
ListToolsFails ==
    /\ life = "listing_tools"
    /\ life' = "start_failed"
    /\ surfaced' = Str("catalog-retrieval failure")
    /\ UNCHANGED <<has_sse_connection, mcp_session, available_tools, conn, sess,
                   events, tasks, frameVars, obsVars>>

\* __aexit__ releasing the connection first and nothing else.
AexitStart_ConnectionFirst(exc) ==
    /\ surfaced' = exc
    /\ life' = IF has_sse_connection THEN "exiting_connection" ELSE "exiting_session"
    /\ UNCHANGED <<has_sse_connection, mcp_session, available_tools, conn, sess,
                   events, tasks, frameVars, obsVars>>

\* __aexit__ up to its first await (lines 44-47), entered when the scoped
\* body is left with `exc` (None on a normal exit).
AexitStart(exc) ==
    /\ surfaced' = exc
    /\ IF mcp_session # None THEN life' = "exiting_session"
       ELSE IF has_sse_connection THEN life' = "exiting_connection"
       ELSE life' = IF exc = None THEN "stopped" ELSE "body_failed"
    /\ UNCHANGED <<has_sse_connection, mcp_session, available_tools, conn, sess,
                   events, tasks, frameVars, obsVars>>

\* The scoped body returns: every chat_with_tools call has been consumed.
BodyReturns ==
    /\ life = "body"
    /\ \A c \in Tasks : pc[c] = "idle"
    /\ AexitStart(None)

\* The scoped body is left by a failure of chat_with_tools that its caller
\* does not handle (lines 200-218, 266-270).
BodyRaises ==
    /\ life = "body"
    /\ \E c \in Tasks : pc[c] = "failed"
    /\ \A c \in Tasks : pc[c] \in {"idle", "failed"}
    /\ AexitStart(Str("completion-request failure"))

\* await self.mcp_session.__aexit__(...) returns (line 45); lines 46-47.
SessionExited ==
    /\ life = "exiting_session"
    /\ sess' = "released"
    /\ events' = Append(events, "release_session")
    /\ life' = IF has_sse_connection THEN "exiting_connection"
               ELSE IF surfaced = None THEN "stopped" ELSE "body_failed"
    /\ UNCHANGED <<has_sse_connection, mcp_session, available_tools, conn, surfaced,
                   tasks, frameVars, obsVars>>

\* await self.mcp_session.__aexit__(...) raises (line 45): __aexit__ is left
\* at once; whether the session got released before it raised is the
\* library's business.
SessionExitFails(after) ==
    /\ life = "exiting_session"
    /\ sess' = after
    /\ events' = IF after = "released" THEN Append(events, "release_session") ELSE events
    /\ life' = "stop_failed"
    /\ surfaced' = Str("release failure")
    /\ UNCHANGED <<has_sse_connection, mcp_session, available_tools, conn,
                   tasks, frameVars, obsVars>>

\* await self.sse_connection.__aexit__(...) returns (line 47).
ConnectionExited ==
    /\ life = "exiting_connection"
    /\ conn' = "released"
    /\ events' = Append(events, "release_connection")
    /\ life' = IF surfaced = None THEN "stopped" ELSE "body_failed"
    /\ UNCHANGED <<has_sse_connection, mcp_session, available_tools, sess, surfaced,
                   tasks, frameVars, obsVars>>

\* await self.sse_connection.__aexit__(...) raises (line 47).
ConnectionExitFails(after) ==
    /\ life = "exiting_connection"
    /\ conn' = after
    /\ events' = IF after = "released" THEN Append(events, "release_connection") ELSE events
    /\ life' = "stop_failed"
    /\ surfaced' = Str("release failure")
    /\ UNCHANGED <<has_sse_connection, mcp_session, available_tools, sess,
                   tasks, frameVars, obsVars>>

\* Positions in which the caller of the scope has got control back.
Terminal == life \in {"start_failed", "stopped", "body_failed", "stop_failed"}

\* ---------------------------------------------------------- chat_with_tools
\* Request #1 passing the tool list as it is, empty or not.
Request1_AlwaysTools(sys, conv, tools) ==
    [system |-> sys, messages |-> conv, tools |-> [list |-> tools]]

\* Completion request #1 (lines 119-125) and #2 (lines 161-166); the model
\* id and max_tokens are the same constants in both and are left out.
Request1(sys, conv, tools) ==
    [ system   |-> sys,
      messages |-> conv,
      tools    |-> IF tools # <<>> THEN [list |-> tools] ELSE None ]

\* Request #2 sending only the two messages the turn added.
Request2_OnlyNew(sys, conv) ==
    [system |-> sys, messages |-> SubSeq(conv, Len(conv) - 1, Len(conv))]

Request2(sys, conv) == [system |-> sys, messages |-> conv]

\* A call ends: its locals and its traffic log go; its result, the response
\* it consumed last and its counters stay on record until its caller resumes.
DropFrame(c) ==
    /\ claude_tools' = [claude_tools EXCEPT ![c] = <<>>]
    /\ system_message' = [system_message EXCEPT ![c] = None]
    /\ conversation_messages' = [conversation_messages EXCEPT ![c] = <<>>]
    /\ response' = [response EXCEPT ![c] = NoResponse]
    /\ idx' = [idx EXCEPT ![c] = 0]
    /\ tool_results' = [tool_results EXCEPT ![c] = <<>>]
    /\ inflight' = [inflight EXCEPT ![c] = Idle]
    /\ requests' = [requests EXCEPT ![c] = <<>>]
    /\ dispatched' = [dispatched EXCEPT ![c] = <<>>]
    /\ failures' = [failures EXCEPT ![c] = <<>>]

\* Lines 106-125: the call runs to its first await, completion request #1.
ChatStart(c, history) ==
    /\ life = "body"
    /\ c \in tasks
    /\ pc[c] = "idle"
    /\ LET tools == convert_mcp_tools_to_claude_format(available_tools)
           sep   == SeparateSystem(history)
           req   == Request1(sep.system_message, sep.conversation_messages, tools)
       IN  /\ messages' = [messages EXCEPT ![c] = history]
           /\ claude_tools' = [claude_tools EXCEPT ![c] = tools]
           /\ system_message' = [system_message EXCEPT ![c] = sep.system_message]
           /\ conversation_messages' =
                  [conversation_messages EXCEPT ![c] = sep.conversation_messages]
           /\ inflight' = [inflight EXCEPT ![c] = [kind |-> "create", request |-> req]]
           /\ requests' = [requests EXCEPT ![c] = <<req>>]
    /\ pc' = [pc EXCEPT ![c] = "await_first"]
    /\ nRequests' = [nRequests EXCEPT ![c] = 1]
    /\ UNCHANGED <<lifeVars, response, idx, tool_results, result, dispatched, failures,
                   received, nDispatched>>

\* Continue collecting the tool results in a list shared by all calls (an
\* attribute of the client in place of the local of line 136).
Continue_SharedResults(c, content, from, conv, results) ==
    LET j == NextToolUse(content, from)
    IN  IF j # 0
        THEN /\ idx' = [idx EXCEPT ![c] = j]
             /\ pc' = [pc EXCEPT ![c] = "await_tool"]
             /\ conversation_messages' = [conversation_messages EXCEPT ![c] = conv]
             /\ tool_results' = [tool_results EXCEPT ![c] = results]
             /\ inflight' = [inflight EXCEPT ![c] =
                    [kind |-> "call_tool", name |-> content[j].name,
                     arguments |-> content[j].input]]
             /\ dispatched' = [dispatched EXCEPT ![c] = Append(@, j)]
             /\ nDispatched' = [nDispatched EXCEPT ![c] = @ + 1]
             /\ UNCHANGED <<requests, nRequests>>
        ELSE LET other == CHOOSE o \in Tasks : o # c
                 conv2 == Append(conv, [role |-> "user",
                                        content |-> [blocks |-> tool_results[other] \o results]])
                 req   == Request2(system_message[c], conv2)
             IN  /\ idx' = [idx EXCEPT ![c] = Len(content) + 1]
                 /\ pc' = [pc EXCEPT ![c] = "await_final"]
                 /\ conversation_messages' = [conversation_messages EXCEPT ![c] = conv2]
                 /\ tool_results' = [tool_results EXCEPT ![c] = results]
                 /\ inflight' = [inflight EXCEPT ![c] = [kind |-> "create", request |-> req]]
                 /\ requests' = [requests EXCEPT ![c] = Append(@, req)]
                 /\ nRequests' = [nRequests EXCEPT ![c] = @ + 1]
                 /\ UNCHANGED <<dispatched, nDispatched>>

\* The for loop of lines 137-152 resumed at block `from` with the working
\* sequence `conv` and the results `results`: it runs to the next await,
\* which is the remote call of the next tool-use block (line 146 -> 81) or,
\* after the last block, completion request #2 (lines 155-166).
Continue(c, content, from, conv, results) ==
    LET j == NextToolUse(content, from)
    IN  IF j # 0
        THEN /\ idx' = [idx EXCEPT ![c] = j]
             /\ pc' = [pc EXCEPT ![c] = "await_tool"]
             /\ conversation_messages' = [conversation_messages EXCEPT ![c] = conv]
             /\ tool_results' = [tool_results EXCEPT ![c] = results]
             /\ inflight' = [inflight EXCEPT ![c] =
                    [kind |-> "call_tool", name |-> content[j].name,
                     arguments |-> content[j].input]]
             /\ dispatched' = [dispatched EXCEPT ![c] = Append(@, j)]
             /\ nDispatched' = [nDispatched EXCEPT ![c] = @ + 1]
             /\ UNCHANGED <<requests, nRequests>>
        ELSE LET conv2 == Append(conv, [role |-> "user", content |-> [blocks |-> results]])
                 req   == Request2(system_message[c], conv2)
             IN  /\ idx' = [idx EXCEPT ![c] = Len(content) + 1]
                 /\ pc' = [pc EXCEPT ![c] = "await_final"]
                 /\ conversation_messages' = [conversation_messages EXCEPT ![c] = conv2]
                 /\ tool_results' = [tool_results EXCEPT ![c] = results]
                 /\ inflight' = [inflight EXCEPT ![c] = [kind |-> "create", request |-> req]]
                 /\ requests' = [requests EXCEPT ![c] = Append(@, req)]
                 /\ nRequests' = [nRequests EXCEPT ![c] = @ + 1]
                 /\ UNCHANGED <<dispatched, nDispatched>>

\* FirstResponseToolUse appending the assistant message to the caller's
\* list as well (the working sequence aliasing the parameter).
FirstResponseToolUse_AppendsToHistory(c, resp) ==
    /\ pc[c] = "await_first"
    /\ resp.stop_reason = "tool_use"
    /\ response' = [response EXCEPT ![c] = resp]
    /\ received' = [received EXCEPT ![c] = resp]
    /\ messages' = [messages EXCEPT ![c] =
           Append(@, [role |-> "assistant", content |-> [blocks |-> resp.content]])]
    /\ Continue(c, resp.content, 1,
                Append(conversation_messages[c],
                       [role |-> "assistant", content |-> [blocks |-> resp.content]]),
                <<>>)
    /\ UNCHANGED <<lifeVars, claude_tools, system_message, result, failures>>

\* Completion request #1 returns `resp` with stop_reason "tool_use"
\* (lines 128-136): the assistant message is appended and the loop starts.
FirstResponseToolUse(c, resp) ==
    /\ pc[c] = "await_first"
    /\ resp.stop_reason = "tool_use"
    /\ response' = [response EXCEPT ![c] = resp]
    /\ received' = [received EXCEPT ![c] = resp]
    /\ Continue(c, resp.content, 1,
                Append(conversation_messages[c],
                       [role |-> "assistant", content |-> [blocks |-> resp.content]]),
                <<>>)
    /\ UNCHANGED <<lifeVars, messages, claude_tools, system_message, result, failures>>

\* FirstResponseOther dispatching the tool-use blocks it finds, whatever
\* the stop reason.
FirstResponseOther_DispatchesBlocks(c, resp) ==
    /\ pc[c] = "await_first"
    /\ resp.stop_reason # "tool_use"
    /\ received' = [received EXCEPT ![c] = resp]
    /\ IF NextToolUse(resp.content, 1) # 0
       THEN /\ response' = [response EXCEPT ![c] = resp]
            /\ Continue(c, resp.content, 1,
                        Append(conversation_messages[c],
                               [role |-> "assistant", content |-> [blocks |-> resp.content]]),
                        <<>>)
            /\ UNCHANGED <<claude_tools, system_message, result, failures>>
       ELSE /\ result' = [result EXCEPT ![c] = Returned(ExtractText(resp.content))]
            /\ pc' = [pc EXCEPT ![c] = "returned"]
            /\ DropFrame(c)
            /\ UNCHANGED <<nRequests, nDispatched>>
    /\ UNCHANGED <<lifeVars, messages>>

\* Completion request #1 returns `resp` with any other stop reason
\* (lines 176-183): the text is extracted and returned.
FirstResponseOther(c, resp) ==
    /\ pc[c] = "await_first"
    /\ resp.stop_reason # "tool_use"
    /\ received' = [received EXCEPT ![c] = resp]
    /\ result' = [result EXCEPT ![c] = Returned(ExtractText(resp.content))]
    /\ pc' = [pc EXCEPT ![c] = "returned"]
    /\ DropFrame(c)
    /\ UNCHANGED <<lifeVars, messages, nRequests, nDispatched>>

\* The remote call of the block at idx completes with `outcome`:
\* _execute_mcp_tool finishes (lines 81-90), its result is appended
\* (lines 148-152) and the loop goes on.  An exception that
\* _execute_mcp_tool does not catch leaves chat_with_tools as well.
ToolCallCompletes(c, outcome) ==
    /\ pc[c] = "await_tool"
    /\ LET block == response[c].content[idx[c]]
           tried == TryBody(block.name, outcome)
           r     == execute_mcp_tool(block.name, outcome)
       IN  /\ IF r.raised
              THEN /\ result' = [result EXCEPT ![c] = Raised("tool failure")]
                   /\ pc' = [pc EXCEPT ![c] = "failed"]
                   /\ DropFrame(c)
                   /\ UNCHANGED <<nRequests, nDispatched>>
              ELSE /\ Continue(c, response[c].content, idx[c] + 1,
                               conversation_messages[c],
                               Append(tool_results[c],
                                      [type |-> "tool_result",
                                       tool_use_id |-> block.id,
                                       content |-> r.value]))
                   /\ failures' = [failures EXCEPT ![c] =
                          Append(@, IF tried.raised THEN tried.exc ELSE None)]
                   /\ UNCHANGED <<result, claude_tools, system_message, response>>
    /\ UNCHANGED <<lifeVars, messages, received>>

\* FinalResponse starting another tool round on a tool_use second response.
FinalResponse_AnotherRound(c, resp) ==
    /\ pc[c] = "await_final"
    /\ received' = [received EXCEPT ![c] = resp]
    /\ IF resp.stop_reason = "tool_use"
       THEN /\ response' = [response EXCEPT ![c] = resp]
            /\ Continue(c, resp.content, 1,
                        Append(conversation_messages[c],
                               [role |-> "assistant", content |-> [blocks |-> resp.content]]),
                        <<>>)
            /\ UNCHANGED <<claude_tools, system_message, result, failures>>
       ELSE /\ result' = [result EXCEPT ![c] = Returned(ExtractText(resp.content))]
            /\ pc' = [pc EXCEPT ![c] = "returned"]
            /\ DropFrame(c)
            /\ UNCHANGED <<nRequests, nDispatched>>
    /\ UNCHANGED <<lifeVars, messages>>

\* FinalResponse sending request #1 again when the second response asks
\* for tools.
FinalResponse_Restarts(c, resp) ==
    /\ pc[c] = "await_final"
    /\ IF resp.stop_reason = "tool_use"
       THEN LET req == requests[c][1]
            IN  /\ pc' = [pc EXCEPT ![c] = "await_first"]
                /\ conversation_messages' =
                       [conversation_messages EXCEPT ![c] = req.messages]
                /\ response' = [response EXCEPT ![c] = NoResponse]
                /\ idx' = [idx EXCEPT ![c] = 0]
                /\ tool_results' = [tool_results EXCEPT ![c] = <<>>]
                /\ inflight' = [inflight EXCEPT ![c] = [kind |-> "create", request |-> req]]
                /\ requests' = [requests EXCEPT ![c] = <<req>>]
                /\ dispatched' = [dispatched EXCEPT ![c] = <<>>]
                /\ failures' = [failures EXCEPT ![c] = <<>>]
                /\ received' = [received EXCEPT ![c] = NoResponse]
                /\ nRequests' = [nRequests EXCEPT ![c] = 1]
                /\ nDispatched' = [nDispatched EXCEPT ![c] = 0]
                /\ UNCHANGED <<claude_tools, system_message, result>>
       ELSE /\ received' = [received EXCEPT ![c] = resp]
            /\ result' = [result EXCEPT ![c] = Returned(ExtractText(resp.content))]
            /\ pc' = [pc EXCEPT ![c] = "returned"]
            /\ DropFrame(c)
            /\ UNCHANGED <<nRequests, nDispatched>>
    /\ UNCHANGED <<lifeVars, messages>>

\* Completion request #2 returns `resp` (lines 168-174).
FinalResponse(c, resp) ==
    /\ pc[c] = "await_final"
    /\ received' = [received EXCEPT ![c] = resp]
    /\ result' = [result EXCEPT ![c] = Returned(ExtractText(resp.content))]
    /\ pc' = [pc EXCEPT ![c] = "returned"]
    /\ DropFrame(c)
    /\ UNCHANGED <<lifeVars, messages, nRequests, nDispatched>>

\* A failing completion request that is sent again.
CompletionFails_Retried(c) ==
    /\ pc[c] \in {"await_first", "await_final"}
    /\ requests' = [requests EXCEPT ![c] = Append(@, inflight[c].request)]
    /\ nRequests' = [nRequests EXCEPT ![c] = @ + 1]
    /\ UNCHANGED <<lifeVars, frameVars, inflight, dispatched, failures, received,
                   nDispatched>>

\* A completion request raises (line 119 or 161): chat_with_tools has no
\* handler, the failure reaches its caller.
CompletionFails(c) ==
    /\ pc[c] \in {"await_first", "await_final"}
    /\ result' = [result EXCEPT ![c] = Raised("completion-request failure")]
    /\ pc' = [pc EXCEPT ![c] = "failed"]
    /\ DropFrame(c)
    /\ UNCHANGED <<lifeVars, messages, received, nRequests, nDispatched>>

\* The caller takes the returned text, or handles the failure and goes on
\* (the interactive loop of lines 233-247); the record of the call goes.
CallerResumes(c) ==
    /\ life = "body"
    /\ pc[c] \in {"returned", "failed"}
    /\ pc' = [pc EXCEPT ![c] = "idle"]
    /\ messages' = [messages EXCEPT ![c] = <<>>]
    /\ result' = [result EXCEPT ![c] = NoResult]
    /\ received' = [received EXCEPT ![c] = NoResponse]
    /\ nRequests' = [nRequests EXCEPT ![c] = 0]
    /\ nDispatched' = [nDispatched EXCEPT ![c] = 0]
    /\ UNCHANGED <<lifeVars, claude_tools, system_message, conversation_messages,
                   response, idx, tool_results, inflight, requests, dispatched, failures>>

\* ------------------------------------------------------------ specification
\* The inputs of one call: any catalog, history and first response within
\* the bounds of which at most one has more than one element; the second
\* response and the tool outcomes are unrestricted.
HistoriesFor(tools) == {h \in Histories : Len(h) <= 1 \/ Len(tools) <= 1}

FirstResponsesFor(tools, history) ==
    {r \in Responses : Len(r.content) <= 1 \/ (Len(history) <= 1 /\ Len(tools) <= 1)}

\* One step of the program with its inputs drawn from the given sets.
Step(catalogs, histories, firsts, finals, outcomes) ==
    \/ EnterStart
    \/ Connected
    \/ ConnectFails
    \/ SessionEntered
    \/ SessionEnterFails
    \/ Initialized
    \/ InitializeFails
    \/ \E catalog \in catalogs : ToolsListed(catalog)
    \/ ListToolsFails
    \/ BodyReturns
    \/ BodyRaises
    \/ SessionExited
    \/ \E after \in {"held", "released"} : SessionExitFails(after)
    \/ ConnectionExited
    \/ \E after \in {"held", "released"} : ConnectionExitFails(after)
    \/ \E c \in Tasks, history \in histories \cap HistoriesFor(available_tools) :
           ChatStart(c, history)
    \/ \E c \in Tasks :
           \E resp \in firsts \cap FirstResponsesFor(available_tools, messages[c]) :
               FirstResponseToolUse(c, resp)
    \/ \E c \in Tasks :
           \E resp \in firsts \cap FirstResponsesFor(available_tools, messages[c]) :
               FirstResponseOther(c, resp)
    \/ \E c \in Tasks, outcome \in outcomes : ToolCallCompletes(c, outcome)
    \/ \E c \in Tasks, resp \in finals : FinalResponse(c, resp)
    \/ \E c \in Tasks : CompletionFails(c)
    \/ \E c \in Tasks : CallerResumes(c)

Next == Step(Catalogs, Histories, Responses, Responses, ToolOutcomes)

Spec == Init /\ [][Next]_vars

\* Inputs of at most one element, but for the first response and the
\* result of a tool call, which keep their bounds.
Short(S) == {q \in S : Len(q) <= 1}

ShortResponses == {r \in Responses : Len(r.content) <= 1}

ShortOutcomes == {o \in ToolOutcomes : o.raised \/ Len(o.content) <= 1}

NextShort == Step(Short(Catalogs), Short(Histories), Responses, ShortResponses, ToolOutcomes)

SpecShort == Init /\ [][NextShort]_vars

\* The awaited operation of call c completes: the model answers request #1
\* or #2, the remote tool call comes back, or the completion request fails.
Progress(c) ==
    \/ \E resp \in Responses : FirstResponseToolUse(c, resp)
    \/ \E resp \in Responses : FirstResponseOther(c, resp)
    \/ \E outcome \in ToolOutcomes : ToolCallCompletes(c, outcome)
    \/ \E resp \in ShortResponses : FinalResponse(c, resp)
    \/ CompletionFails(c)

\* Every awaited completion request and remote tool call eventually returns
\* or fails: the event loop resumes a coroutine whose awaitable is done.
SpecLive == SpecShort /\ \A c \in Sequential : WF_vars(Progress(c))

\* Two coroutines call chat_with_tools on one client (asyncio.gather in the
\* scoped body) and interleave at their awaits.  Each of them draws from a
\* few inputs: a one-message history, a first and a second response of at
\* most one block, three outcomes of a tool call.
ConcHistories == {h \in Histories : Len(h) = 1 /\ h[1].role # "system"}

ConcFirsts == {r \in ShortResponses : r.stop_reason # "max_tokens"}

ConcFinals ==
    {r \in ShortResponses :
        r.stop_reason = "end_turn" /\ \A i \in 1..Len(r.content) : r.content[i].type = "text"}

ConcOutcomes ==
    {o \in ShortOutcomes :
        IF o.raised THEN o.exc.kind = "transport"
        ELSE \A i \in 1..Len(o.content) : o.content[i] = TextItem("sunny")}

NextConc == Step(Short(Catalogs), ConcHistories, ConcFirsts, ConcFinals, ConcOutcomes)

SpecConc == InitWith(Tasks) /\ [][NextConc]_vars


\* ------------------------------------------------------------------ claims
\* Reference definitions the claims are stated with.
IsToolUse(b)   == b.type = "tool_use"
IsNotSystem(m) == m.role # "system"
IsSystem(m)    == m.role = "system"

ToolUses(content)   == SelectSeq(content, IsToolUse)
NonSystem(history)  == SelectSeq(history, IsNotSystem)
SystemMsgs(history) == SelectSeq(history, IsSystem)

RECURSIVE TextConcat(_)
TextConcat(content) ==
    IF content = <<>> THEN ""
    ELSE (IF Head(content).type = "text" THEN Head(content).text ELSE "")
         \o TextConcat(Tail(content))

Last(q) == q[Len(q)]

\* The user message injected into completion request #2.
Injected(c) == Last(requests[c][2].messages)

Failed(c, k) == failures[c][k] # None

TransportFailed(c) ==
    \E k \in 1..Len(failures[c]) : Failed(c, k) /\ failures[c][k].kind = "transport"

\* C1: when the first response has stop reason tool_use and N tool-use
\* blocks, exactly N calls of _execute_mcp_tool are made, all before
\* completion request #2 is sent, one per tool-use block in the order of the
\* blocks (none twice, none skipped), and the user message injected into
\* request #2 holds exactly N tool_result entries, the i-th carrying the id
\* of the i-th tool-use block.
C1_ExactlyNDispatches ==
    \A c \in Tasks :
        /\ pc[c] = "await_tool" => nRequests[c] = 1 /\ Len(requests[c]) = 1
        /\ pc[c] = "await_final" =>
             LET tus == ToolUses(response[c].content)
                 inj == Injected(c)
             IN  /\ response[c].stop_reason = "tool_use"
                 /\ nDispatched[c] = Len(tus)
                 /\ Len(dispatched[c]) = Len(tus)
                 /\ \A i \in 1..Len(tus) : response[c].content[dispatched[c][i]] = tus[i]
                 /\ \A i, j \in 1..Len(tus) : i < j => dispatched[c][i] < dispatched[c][j]
                 /\ Len(requests[c]) = 2
                 /\ inflight[c] = [kind |-> "create", request |-> requests[c][2]]
                 /\ inj.role = "user"
                 /\ Len(inj.content.blocks) = Len(tus)
                 /\ \A i \in 1..Len(tus) :
                        /\ inj.content.blocks[i].type = "tool_result"
                        /\ inj.content.blocks[i].tool_use_id = tus[i].id

\* Request #2 is in flight after a turn with two tool-use blocks.
C1_Witness ==
    \E c \in Tasks :
        /\ pc[c] = "await_final"
        /\ Len(ToolUses(response[c].content)) = 2
        /\ Len(Injected(c).content.blocks) = 2

\* C2 as stated: after a tool call of the turn raised a transport-level
\* failure, the string chat_with_tools returns is non-empty, whatever the
\* second model response is.
C2_ReturnsNonEmpty ==
    [][\A c \in Tasks :
          (pc[c] = "await_final" /\ TransportFailed(c) /\ pc'[c] = "returned")
              => result'[c].value # ""]_vars

\* C2 amended: a transport-level failure of a dispatched tool call is not
\* propagated to the caller of chat_with_tools: the call goes on to the next
\* block or to completion request #2, and for every second model response it
\* returns the concatenation of that response's text blocks (the empty
\* string when it has none); only a failing request #2 makes it fail.
C2_FailureNotPropagated ==
    [][\A c \in Tasks :
          /\ pc[c] = "await_tool" => pc'[c] \in {"await_tool", "await_final"}
          /\ (pc[c] = "await_final" /\ TransportFailed(c) /\ pc'[c] = "returned")
                 => result'[c] = Returned(TextConcat(received'[c].content))
          /\ (pc[c] = "await_final" /\ TransportFailed(c) /\ pc'[c] = "failed")
                 => result'[c] = Raised("completion-request failure")]_vars

\* A transport failure was contained and request #2 has been sent with it.
C2_Witness ==
    \E c \in Tasks :
        /\ pc[c] = "await_final"
        /\ TransportFailed(c)
        /\ \E e \in 1..Len(Injected(c).content.blocks) :
               Injected(c).content.blocks[e].content = "Error executing tool get_weather: "

\* C3: _execute_mcp_tool never propagates a failure: whatever the remote
\* call raised (transport error, remote tool error, unknown tool) or however
\* its result was malformed, the invocation yields exactly one result, the
\* non-empty string "Error executing tool {name}: {message}".
C3_ErrorsContained ==
    \A c \in Tasks :
        /\ result[c].status = "raised" => result[c].kind # "tool failure"
        /\ pc[c] = "await_tool" => Len(dispatched[c]) = Len(tool_results[c]) + 1
        /\ pc[c] = "await_final" => Len(dispatched[c]) = Len(tool_results[c])
        /\ pc[c] \in {"await_tool", "await_final"} =>
             /\ Len(failures[c]) = Len(tool_results[c])
             /\ \A k \in 1..Len(failures[c]) :
                    Failed(c, k) =>
                        LET name == response[c].content[dispatched[c][k]].name
                        IN  /\ tool_results[c][k].content =
                                   "Error executing tool " \o name \o ": "
                                       \o failures[c][k].message
                            /\ tool_results[c][k].content # ""

\* An unknown tool and a malformed result were both turned into strings.
C3_Witness ==
    \E c \in Tasks :
        /\ pc[c] = "await_final"
        /\ Len(failures[c]) = 2
        /\ Failed(c, 1) /\ failures[c][1].kind = "unknown_tool"
        /\ Failed(c, 2) /\ failures[c][2].kind = "AttributeError"
        /\ tool_results[c][1].content = "Error executing tool get_time: Unknown tool"

\* C4: a failing tool call does not abort the turn: the call never ends
\* with a tool failure, and when request #2 is issued every tool-use block
\* of the turn has been dispatched and has completed, the entry carrying the
\* id of a failed call holding that call's error string.
C4_FailureDoesNotAbort ==
    \A c \in Tasks :
        /\ pc[c] = "failed" => result[c] = Raised("completion-request failure")
        /\ pc[c] = "await_final" =>
             LET tus == ToolUses(response[c].content)
                 inj == Injected(c)
             IN  /\ Len(failures[c]) = Len(tus)
                 /\ nRequests[c] = 2
                 /\ inflight[c] = [kind |-> "create", request |-> requests[c][2]]
                 /\ \A k \in 1..Len(failures[c]) :
                        Failed(c, k) =>
                            \E e \in 1..Len(inj.content.blocks) :
                                /\ inj.content.blocks[e].tool_use_id = tus[k].id
                                /\ inj.content.blocks[e].content =
                                       "Error executing tool " \o tus[k].name \o ": "
                                           \o failures[c][k].message

\* The first of two tool calls failed, the second was still dispatched and
\* succeeded, and request #2 is in flight.
C4_Witness ==
    \E c \in Tasks :
        /\ pc[c] = "await_final"
        /\ Len(failures[c]) = 2
        /\ Failed(c, 1)
        /\ ~Failed(c, 2)
        /\ nDispatched[c] = 2

\* C5: when completion request #1 comes back with the ordinary stop reason
\* end_turn, chat_with_tools returns at once the concatenation, in order, of
\* the text of the text blocks, having dispatched no tool and sent no second
\* request.
C5_OrdinaryCompletion ==
    [][\A c \in Tasks :
          (pc[c] = "await_first" /\ received'[c].stop_reason = "end_turn")
              => /\ pc'[c] = "returned"
                 /\ result'[c] = Returned(TextConcat(received'[c].content))
                 /\ nDispatched'[c] = 0
                 /\ nRequests'[c] = 1
                 /\ inflight'[c] = Idle]_vars

\* An end_turn response with two text blocks was returned as "ab".
C5_Witness ==
    \E c \in Tasks :
        /\ pc[c] = "returned"
        /\ nRequests[c] = 1
        /\ received[c].stop_reason = "end_turn"
        /\ received[c].content = <<TextBlock("a"), TextBlock("b")>>
        /\ result[c] = Returned("ab")

\* C6 as stated: on every exit path of the session lifecycle every resource
\* that was acquired has been released: the caller never gets control back
\* while the SSE connection or the ClientSession is still held.
C6_AllReleasedAtExit ==
    Terminal => (conn # "held" /\ sess # "held")

\* C7: acquisition and release are strictly nested: the connection is
\* acquired before the session, the session is released before the
\* connection, and the connection is never released while the session is
\* still held.
C7_StrictNesting ==
    /\ sess = "held" => conn = "held"
    /\ conn = "released" => sess = "released"
    /\ \A i, j \in 1..Len(events) :
           /\ (events[i] = "acquire_connection" /\ events[j] = "acquire_session") => i < j
           /\ (events[i] = "release_session" /\ events[j] = "release_connection") => i < j
    /\ (\E j \in 1..Len(events) : events[j] = "acquire_session")
           => (\E i \in 1..Len(events) : events[i] = "acquire_connection")

\* stop has released both resources.
C7_Witness ==
    /\ life = "stopped"
    /\ events = <<"acquire_connection", "acquire_session",
                  "release_session", "release_connection">>

\* C8: failures outside the per-tool-call path are neither contained nor
\* retried: a failure of start reaches the caller of start (no body runs;
\* a body only runs on a connection and a session that were acquired),
\* a failing completion request ends chat_with_tools with that failure and
\* no returned string, request #1 and request #2 are each issued once, and
\* after a failure of request #1 no tool has been dispatched.
C8_NotContainedNotRetried ==
    /\ life = "start_failed" =>
           /\ surfaced \in {Str("connection failure"), Str("handshake failure"),
                            Str("catalog-retrieval failure")}
           /\ \A c \in Tasks : pc[c] = "idle" /\ nRequests[c] = 0
    /\ life = "body" => (conn = "held" /\ sess = "held" /\ surfaced = None)
    /\ \A c \in Tasks : pc[c] # "idle" => "acquire_session" \in {events[i] : i \in 1..Len(events)}
    /\ Cardinality({i \in 1..Len(events) : events[i] = "acquire_connection"}) <= 1
    /\ Cardinality({i \in 1..Len(events) : events[i] = "acquire_session"}) <= 1
    /\ \A c \in Tasks :
           /\ pc[c] \in {"await_first", "await_tool"} => nRequests[c] = 1
           /\ pc[c] = "await_final" => nRequests[c] = 2
           /\ pc[c] = "failed" =>
                  /\ result[c] = Raised("completion-request failure")
                  /\ nRequests[c] \in {1, 2}
                  /\ nRequests[c] = 1 => nDispatched[c] = 0

\* Request #2 failed after the tools of the turn had run.
C8_Witness ==
    \E c \in Tasks :
        /\ pc[c] = "failed"
        /\ nRequests[c] = 2
        /\ nDispatched[c] = 2
        /\ result[c] = Raised("completion-request failure")

\* C9: the message sequence of request #1 and of request #2 holds no
\* system-role message and holds all non-system messages of the history in
\* their original order; the system text travels as the separate system
\* parameter, with the same value in both requests.
C9_SystemSeparated ==
    \A c \in Tasks :
        \A r \in 1..Len(requests[c]) :
            LET req  == requests[c][r]
                rest == NonSystem(messages[c])
            IN  /\ \A i \in 1..Len(req.messages) : req.messages[i].role # "system"
                /\ Len(req.messages) >= Len(rest)
                /\ SubSeq(req.messages, 1, Len(rest)) = rest
                /\ r = 1 => req.messages = rest
                /\ req.system = requests[c][1].system
                /\ IF SystemMsgs(messages[c]) = <<>> THEN req.system = None
                   ELSE \E i \in 1..Len(messages[c]) :
                            /\ messages[c][i].role = "system"
                            /\ req.system = Str(messages[c][i].content.text)

\* Both requests of a call whose history mixes a system message and a
\* non-system message have been sent.
C9_Witness ==
    \E c \in Tasks :
        /\ pc[c] = "await_final"
        /\ Len(requests[c]) = 2
        /\ Len(SystemMsgs(messages[c])) = 1
        /\ Len(NonSystem(messages[c])) = 1
        /\ requests[c][2].system = Str("S1")

\* C10 as stated: with more than one system message in the history, the
\* system text passed to the model is the content of the first one.
C10_FirstWins ==
    \A c \in Tasks :
        \A r \in 1..Len(requests[c]) :
            Len(SystemMsgs(messages[c])) > 1 =>
                requests[c][r].system = Str(SystemMsgs(messages[c])[1].content.text)

\* C10 amended: with more than one system message in the history, the
\* system text passed to the model is the content of the last one.
C10_LastWins ==
    \A c \in Tasks :
        \A r \in 1..Len(requests[c]) :
            Len(SystemMsgs(messages[c])) > 1 =>
                requests[c][r].system = Str(Last(SystemMsgs(messages[c])).content.text)

\* A history with the system messages S1 then S2 was sent with system S2.
C10_Witness ==
    \E c \in Tasks :
        /\ pc[c] = "await_first"
        /\ Len(SystemMsgs(messages[c])) = 2
        /\ SystemMsgs(messages[c])[1].content.text = "S1"
        /\ requests[c][1].system = Str("S2")

\* C11: with an empty cached catalog no completion request of the call
\* carries a tool list (request #1 is sent with tools = None); with a
\* non-empty catalog request #1 carries exactly one tool spec per catalog
\* descriptor, in the catalog's order.
C11_ToolListOmittedWhenEmpty ==
    \A c \in Tasks :
        \A r \in 1..Len(requests[c]) :
            LET req == requests[c][r]
            IN  /\ available_tools = <<>> =>
                       ("tools" \in DOMAIN req => req.tools = None)
                /\ (r = 1 /\ available_tools # <<>>) =>
                       /\ "tools" \in DOMAIN req
                       /\ req.tools # None
                       /\ Len(req.tools.list) = Len(available_tools)
                       /\ \A i \in 1..Len(available_tools) :
                              req.tools.list[i].name = available_tools[i].name

\* Request #1 was sent without tools on an empty catalog.
C11_Witness ==
    \E c \in Tasks :
        /\ pc[c] = "await_first"
        /\ available_tools = <<>>
        /\ requests[c][1].tools = None

\* The positions a call moves between: awaiting the first response, a tool
\* call in flight, awaiting the final response, done.
Running == {"await_first", "await_tool", "await_final"}

Done == {"returned", "failed"}

CallSteps ==
    { <<"idle", "await_first">>,
      <<"await_first", "await_tool">>, <<"await_first", "await_final">>,
      <<"await_first", "returned">>, <<"await_first", "failed">>,
      <<"await_tool", "await_tool">>, <<"await_tool", "await_final">>,
      <<"await_final", "returned">>, <<"await_final", "failed">>,
      <<"returned", "idle">>, <<"failed", "idle">> }

\* C12: one chat_with_tools call goes from awaiting the first response
\* either to done or, on tool_use, through its tool calls to awaiting the
\* final response and then to done.  It sends at most two completion
\* requests, request #2 carries no tool list, a tool is dispatched only
\* while request #1 is the only request sent, and whatever the second
\* response is, the call ends with it: no dispatch and no third request.
C12_TwoRoundMachine ==
    [][\A c \in Tasks :
          /\ (pc'[c] # pc[c]) => <<pc[c], pc'[c]>> \in CallSteps
          /\ nRequests'[c] <= 2
          /\ Len(requests'[c]) <= 2
          /\ Len(requests'[c]) = 2 => "tools" \notin DOMAIN requests'[c][2]
          /\ (dispatched'[c] # dispatched[c] /\ dispatched'[c] # <<>>) =>
                 /\ pc'[c] = "await_tool"
                 /\ nRequests'[c] = 1
                 /\ Len(requests'[c]) = 1
                 /\ nDispatched'[c] = nDispatched[c] + 1
          /\ (nDispatched'[c] # nDispatched[c] /\ pc'[c] # "idle") =>
                 dispatched'[c] = Append(dispatched[c], idx'[c])
          /\ (pc[c] = "await_final" /\ received'[c] # received[c]) =>
                 /\ pc'[c] = "returned"
                 /\ result'[c] = Returned(TextConcat(received'[c].content))
                 /\ nRequests'[c] = 2
                 /\ nDispatched'[c] = nDispatched[c]
                 /\ inflight'[c] = Idle]_vars

\* A call returned after a second response that asked for tools again.
C12_Witness ==
    \E c \in Tasks :
        /\ pc[c] = "returned"
        /\ nRequests[c] = 2
        /\ received[c].stop_reason = "tool_use"
        /\ ToolUses(received[c].content) # <<>>
        /\ nDispatched[c] = 1

\* C14: the tool-use blocks of a turn are dispatched one at a time in the
\* order of the response: while a tool call is in flight it is the only one
\* outstanding, every earlier block's call has completed, and it is the call
\* of the next block in order; request #2 is sent only once every call has
\* completed.
C14_OneAtATimeInOrder ==
    \A c \in Tasks :
        /\ pc[c] = "await_tool" =>
             LET tus == ToolUses(response[c].content)
                 n   == Len(dispatched[c])
             IN  /\ n = Len(failures[c]) + 1
                 /\ n <= Len(tus)
                 /\ \A k \in 1..n : response[c].content[dispatched[c][k]] = tus[k]
                 /\ inflight[c] = [kind |-> "call_tool", name |-> tus[n].name,
                                   arguments |-> tus[n].input]
                 /\ \A k \in 1..(n - 1) : tool_results[c][k].tool_use_id = tus[k].id
                 /\ requests[c] = <<requests[c][1]>>
        /\ pc[c] = "await_final" =>
             /\ Len(failures[c]) = Len(dispatched[c])
             /\ Len(tool_results[c]) = Len(ToolUses(response[c].content))
             /\ inflight[c].kind = "create"

\* The second of two tool calls is in flight after the first completed.
C14_Witness ==
    \E c \in Tasks :
        /\ pc[c] = "await_tool"
        /\ dispatched[c] = <<1, 2>>
        /\ Len(failures[c]) = 1
        /\ inflight[c].name = "get_time"

IsPrefix(p, q) == Len(p) <= Len(q) /\ SubSeq(q, 1, Len(p)) = p

\* C15: on a tool_use first response the messages of request #2 are the
\* messages of request #1, then one assistant message whose content is the
\* whole content of the first response, then one user message holding the
\* tool_result entries; the working sequence only grows at its end while
\* the call runs.
C15_Request2Messages ==
    [][\A c \in Tasks :
          /\ pc'[c] = "await_final" =>
                 LET r1 == requests'[c][1].messages
                     r2 == requests'[c][2].messages
                     n  == Len(r1)
                 IN  /\ received'[c].stop_reason = "tool_use"
                     /\ Len(r2) = n + 2
                     /\ SubSeq(r2, 1, n) = r1
                     /\ r1 = NonSystem(messages'[c])
                     /\ r2[n + 1] = [role |-> "assistant",
                                     content |-> [blocks |-> received'[c].content]]
                     /\ r2[n + 2].role = "user"
                     /\ r2[n + 2].content = [blocks |-> tool_results'[c]]
                     /\ \A k \in 1..Len(tool_results'[c]) :
                            tool_results'[c][k].type = "tool_result"
          /\ (pc[c] \in Running /\ pc'[c] \in Running) =>
                 IsPrefix(conversation_messages[c], conversation_messages'[c])]_vars

\* Request #2 is in flight after a response with a text block and a
\* tool-use block, on a history that had a message to carry over.
C15_Witness ==
    \E c \in Tasks :
        /\ pc[c] = "await_final"
        /\ Len(requests[c][1].messages) >= 1
        /\ Len(requests[c][2].messages) = Len(requests[c][1].messages) + 2
        /\ \E i, j \in 1..Len(received[c].content) :
               received[c].content[i].type = "text" /\ received[c].content[j].type = "tool_use"

\* C16: a first response with any stop reason other than tool_use is
\* handled as an ordinary completion: the call returns the concatenation of
\* the text blocks present (the empty string when there are none), dispatches
\* no tool and sends no second request, even when the content holds tool-use
\* blocks.
C16_OtherStopReasons ==
    [][\A c \in Tasks :
          (/\ pc[c] = "await_first"
           /\ received'[c] # NoResponse
           /\ received'[c].stop_reason # "tool_use")
              => /\ pc'[c] = "returned"
                 /\ result'[c] = Returned(TextConcat(received'[c].content))
                 /\ (\A i \in 1..Len(received'[c].content) :
                         received'[c].content[i].type # "text")
                        => result'[c] = Returned("")
                 /\ nDispatched'[c] = 0
                 /\ dispatched'[c] = <<>>
                 /\ nRequests'[c] = 1
                 /\ inflight'[c] = Idle]_vars

\* A truncated response holding only a tool-use block was returned as the
\* empty string without a dispatch.
C16_Witness ==
    \E c \in Tasks :
        /\ pc[c] = "returned"
        /\ nRequests[c] = 1
        /\ nDispatched[c] = 0
        /\ received[c].stop_reason = "max_tokens"
        /\ ToolUses(received[c].content) # <<>>
        /\ result[c] = Returned("")

\* The tool specs a running call converted from the catalog.
Converted(c) == claude_tools[c]

ConvertedShape(c) ==
    /\ Len(Converted(c)) = Len(available_tools)
    /\ \A i \in 1..Len(available_tools) :
           LET d == available_tools[i]
               t == Converted(c)[i]
           IN  /\ DOMAIN t = {"name", "description", "input_schema"}
               /\ t.name = d.name
               /\ t.description = (IF d.description = None THEN "" ELSE d.description.some)
               /\ t.input_schema # ""

\* C13 as stated: the conversion yields one entry per descriptor, in
\* order, with the descriptor's name, its description or "" when absent, and
\* as input schema the descriptor's own schema whenever it has one, the
\* placeholder otherwise.
C13_OwnSchemaWhenPresent ==
    \A c \in Tasks :
        pc[c] \in Running =>
            /\ ConvertedShape(c)
            /\ \A i \in 1..Len(available_tools) :
                   LET d == available_tools[i]
                   IN  Converted(c)[i].input_schema =
                           (IF d.inputSchema # None THEN d.inputSchema.some
                            ELSE FallbackSchema)

\* C13 amended: as above, but the descriptor's own schema is passed on only
\* when it is present and non-empty; an absent schema and the empty schema {}
\* both give the placeholder object schema with no properties.
C13_OwnSchemaWhenNonEmpty ==
    \A c \in Tasks :
        pc[c] \in Running =>
            /\ ConvertedShape(c)
            /\ \A i \in 1..Len(available_tools) :
                   LET d == available_tools[i]
                   IN  Converted(c)[i].input_schema =
                           (IF d.inputSchema # None /\ d.inputSchema.some # "{}"
                            THEN d.inputSchema.some
                            ELSE FallbackSchema)

\* A call runs on a two-descriptor catalog whose first descriptor has its
\* own schema and whose second has the empty schema, converted to the
\* placeholder.
C13_Witness ==
    \E c \in Tasks :
        /\ pc[c] \in Running
        /\ Len(available_tools) = 2
        /\ available_tools[1].name = "get_weather"
        /\ available_tools[2].inputSchema = Str("{}")
        /\ Converted(c)[1].input_schema = "{city: string}"
        /\ Converted(c)[2].input_schema = FallbackSchema

\* C17 as stated, its last part: the string the dispatcher returns, which
\* becomes the content of a tool_result entry, is never the empty string.
C17_NeverEmpty ==
    \A c \in Tasks :
        \A k \in 1..Len(tool_results[c]) : tool_results[c][k].content # ""

\* C17 amended: when the remote call succeeded, the dispatcher returns the
\* text of the first content element if the result has one with a text,
\* whatever the other elements are, and the placeholder naming the tool if
\* the result has no element; the returned string is empty exactly when the
\* first element's text is empty.
C17_FirstElementText ==
    [][\A c \in Tasks :
          (pc[c] = "await_tool" /\ tool_results'[c] # tool_results[c]) =>
              \A o \in ToolOutcomes :
                  (~o.raised /\ ToolCallCompletes(c, o)) =>
                      LET name == response[c].content[idx[c]].name
                          out  == Last(tool_results'[c]).content
                          text == Len(o.content) > 0 /\ "text" \in DOMAIN o.content[1]
                      IN  /\ Len(tool_results'[c]) = Len(tool_results[c]) + 1
                          /\ Len(o.content) = 0 =>
                                 out = "Tool " \o name
                                     \o " executed successfully but returned no content."
                          /\ text => out = o.content[1].text
                          /\ (out = "") <=> (text /\ o.content[1].text = "")]_vars

\* One call of the turn returned an empty first text and the next one a
\* result without content.
C17_Witness ==
    \E c \in Tasks :
        /\ pc[c] = "await_final"
        /\ Len(tool_results[c]) = 2
        /\ ~Failed(c, 1) /\ ~Failed(c, 2)
        /\ tool_results[c][1].content = ""
        /\ tool_results[c][2].content =
               "Tool get_time executed successfully but returned no content."

\* C18: chat_with_tools leaves the history its caller passed unchanged on
\* every path; the assistant and tool-result messages go to the call's own
\* working sequence only, a call starts from its history and the catalog
\* alone, and nothing of its working state is left when it has ended.
C18_HistoryUntouched ==
    [][\A c \in Tasks :
          /\ (pc[c] # "idle" /\ pc'[c] # "idle") => messages'[c] = messages[c]
          /\ (pc[c] = "idle" /\ pc'[c] = "await_first") =>
                 /\ conversation_messages'[c] = NonSystem(messages'[c])
                 /\ requests'[c] =
                        <<Request1(SeparateSystem(messages'[c]).system_message,
                                   NonSystem(messages'[c]),
                                   convert_mcp_tools_to_claude_format(available_tools))>>
                 /\ response'[c] = NoResponse
                 /\ tool_results'[c] = <<>>
                 /\ dispatched'[c] = <<>>
                 /\ nDispatched'[c] = 0
                 /\ result'[c] = NoResult
          /\ (pc[c] \in Running /\ pc'[c] \in Running) =>
                 /\ Len(conversation_messages'[c]) >= Len(NonSystem(messages'[c]))
                 /\ SubSeq(conversation_messages'[c], 1, Len(NonSystem(messages'[c])))
                        = NonSystem(messages'[c])
          /\ pc'[c] \in Done =>
                 /\ conversation_messages'[c] = <<>>
                 /\ tool_results'[c] = <<>>
                 /\ response'[c] = NoResponse]_vars

\* Request #2 is in flight: the working sequence has grown by two messages,
\* the caller's two-message history is as it was passed.
C18_Witness ==
    \E c \in Tasks :
        /\ pc[c] = "await_final"
        /\ Len(messages[c]) = 2
        /\ NonSystem(messages[c]) = messages[c]
        /\ Len(conversation_messages[c]) = 4

\* C20: if every completion request and every remote tool call eventually
\* returns or fails, every chat_with_tools call eventually ends, with a
\* returned string or a completion-request failure, having sent at most two
\* completion requests and dispatched at most as many tools as its first
\* response has tool-use blocks.
C20_CallTerminates ==
    /\ \A c \in Sequential : (pc[c] \in Running) ~> (pc[c] \in Done)
    /\ [](\A c \in Tasks :
              /\ nRequests[c] <= 2
              /\ pc[c] = "await_first" => nDispatched[c] = 0
              /\ pc[c] \in {"await_tool", "await_final"} =>
                     nDispatched[c] <= Len(ToolUses(response[c].content))
              /\ pc[c] = "returned" => result[c].status = "returned"
              /\ pc[c] = "failed" => result[c] = Raised("completion-request failure"))

\* A call has ended after two requests and two dispatches.
C20_Witness ==
    \E c \in Tasks :
        /\ pc[c] = "returned"
        /\ nRequests[c] = 2
        /\ nDispatched[c] = 2

\* C19: no step of chat_with_tools or _execute_mcp_tool writes the cached
\* catalog or the session handle; when two calls interleave, the follow-up
\* request of each is made of its own history, the content of its own first
\* response and its own tool results, and the calls offer the same tool
\* list, the conversion of the catalog.
C19_CallsIsolated ==
    [][/\ (<<frameVars, obsVars>>' # <<frameVars, obsVars>>) =>
              /\ available_tools' = available_tools
              /\ mcp_session' = mcp_session
       /\ \A c \in Tasks :
              pc'[c] = "await_final" =>
                  /\ requests'[c][2].messages =
                         NonSystem(messages'[c])
                         \o << [role |-> "assistant",
                                content |-> [blocks |-> received'[c].content]],
                               [role |-> "user",
                                content |-> [blocks |-> tool_results'[c]]] >>
                  /\ Len(tool_results'[c]) = Len(ToolUses(received'[c].content))
                  /\ \A k \in 1..Len(tool_results'[c]) :
                         tool_results'[c][k].tool_use_id =
                             ToolUses(received'[c].content)[k].id
       /\ \A c \in Tasks :
              pc'[c] \in Running =>
                  requests'[c][1].tools =
                      Request1(None, <<>>,
                               convert_mcp_tools_to_claude_format(available_tools')).tools
       /\ \A c, d \in Tasks :
              (pc'[c] \in Running /\ pc'[d] \in Running) =>
                  requests'[c][1].tools = requests'[d][1].tools]_vars

\* Both calls have request #2 in flight at once, after different first
\* responses and with different tool results.
C19_Witness ==
    /\ life = "body"
    /\ available_tools # <<>>
    /\ \A c \in Tasks : pc[c] = "await_final" /\ tool_results[c] # <<>>
    /\ received[1] # received[2]
    /\ tool_results[1] # tool_results[2]
    /\ messages[1] # messages[2]

====
